---- MODULE Spec2Model ----
(***************************************************************************)
(* Model of analyze_job_search.py: main() loads the submissions CSV into   *)
(* a frame and runs the report steps over it in a fixed order.  A frame is *)
(* a sequence of rows, each row a record of its columns plus the index     *)
(* label pandas keeps through filtering and sorting.  A Timestamp is the   *)
(* record [year, month, day]; text produced or consumed with the format    *)
(* '%m/%d/%Y' is the record [text |-> <<month, day, year>>]; a float is    *)
(* [kind, num, den] with kind "finite" (the value num/den) or "nan".       *)
(***************************************************************************)
EXTENDS Integers, Sequences, FiniteSets, TLC

\* Largest number of data rows of the CSV file.
MaxRows == 3

----------------------------------------------------------------------------
(* Values *)

Finite(n, d) == [kind |-> "finite", num |-> n, den |-> d]
NaN == [kind |-> "nan", num |-> 0, den |-> 0]

\* float * 100
Times100(x) == IF x.kind = "nan" THEN NaN ELSE Finite(x.num * 100, x.den)

Timestamp(y, m, d) == [year |-> y, month |-> m, day |-> d]

\* pd.to_datetime(text, format='%m/%d/%Y')
ToDatetime(s) == Timestamp(s.text[3], s.text[1], s.text[2])

\* Timestamp.strftime('%m/%d/%Y')
StrftimeMDY(ts) == [text |-> <<ts.month, ts.day, ts.year>>]

\* Timestamp.strftime('%B %Y')
StrftimeBY(ts) == [text |-> <<ts.month, ts.year>>]

\* Chronological order of Timestamps.
TsLess(a, b) ==
    \/ a.year < b.year
    \/ a.year = b.year /\ a.month < b.month
    \/ a.year = b.year /\ a.month = b.month /\ a.day < b.day

IsLeap(y) == (y % 4 = 0 /\ y % 100 # 0) \/ y % 400 = 0

DaysInMonth(y, m) ==
    IF m = 2 THEN (IF IsLeap(y) THEN 29 ELSE 28)
    ELSE IF m \in {4, 6, 9, 11} THEN 30 ELSE 31

\* The monthly bin a Timestamp falls in, as a running month number.
MonthOrd(ts) == ts.year * 12 + (ts.month - 1)

\* The label resample('M') gives a bin: the last day of its month.
MonthEnd(ord) ==
    Timestamp(ord \div 12, (ord % 12) + 1, DaysInMonth(ord \div 12, (ord % 12) + 1))

----------------------------------------------------------------------------
(* The CSV files the model reads *)

DateTexts == { [text |-> <<11, 5, 2023>>], [text |-> <<11, 20, 2023>>],
               [text |-> <<1, 9, 2024>>] }

CsvRow(d, c, q, i, r, l) ==
    [Date |-> d, Company |-> c, Title |-> "Engineer", Quality |-> q,
     Interviews |-> i, Recruiter |-> r, LocalRemote |-> l]

\* Rows that vary in date, quality and interview outcome.
TimelineRows ==
    { CsvRow(d, "Acme", q, i, "N", "Remote") :
        d \in DateTexts, q \in {1, 2, 3}, i \in {"Y", "N"} }

\* Rows that vary in recruiter, interview outcome and location.
SubmissionRows ==
    { CsvRow([text |-> <<11, 5, 2023>>],
             IF l = "Remote" THEN "Globex" ELSE "Acme",
             IF i = "Y" THEN 1 ELSE 3, i, r, l) :
        i \in {"Y", "N"}, r \in {"Y", "N"}, l \in {"Local", "Remote", "Hybrid"} }

Files(rows) == UNION { [1..n -> rows] : n \in 0..MaxRows }

----------------------------------------------------------------------------
(* Frame and Series operations of pandas, as the program uses them *)

Indices(t) == 1..Len(t)

\* pd.read_csv followed by the conversion of the Date column: rows get the
\* RangeIndex labels 0, 1, ...
ReadCsv(file) ==
    [k \in 1..Len(file) |->
        [index |-> k - 1, Date |-> ToDatetime(file[k].Date),
         Company |-> file[k].Company, Title |-> file[k].Title,
         Quality |-> file[k].Quality, Interviews |-> file[k].Interviews,
         Recruiter |-> file[k].Recruiter, LocalRemote |-> file[k].LocalRemote]]

\* frame[col] == v: a boolean Series over the rows.
ColEq(t, col, v) == [k \in 1..Len(t) |-> t[k][col] = v]

\* frame[col].isin(vs)
ColIsIn(t, col, vs) == [k \in 1..Len(t) |-> t[k][col] \in vs]

\* mask1 & mask2
MaskAnd(m1, m2) == [k \in 1..Len(m1) |-> m1[k] /\ m2[k]]

\* frame[mask]: the rows the mask selects, in order, labels kept.
BooleanIndex(t, mask) ==
    LET kept[k \in 0..Len(t)] ==
            IF k = 0 THEN <<>>
            ELSE IF mask[k] THEN Append(kept[k - 1], t[k]) ELSE kept[k - 1]
    IN  kept[Len(t)]

RECURSIVE SumQuality(_)
SumQuality(t) == IF t = <<>> THEN 0 ELSE Head(t).Quality + SumQuality(Tail(t))

\* Series.mean() of the Quality column.
MeanQuality(t) == IF Len(t) = 0 THEN NaN ELSE Finite(SumQuality(t), Len(t))

RECURSIVE CountTrue(_)
CountTrue(bs) == IF bs = <<>> THEN 0
                 ELSE (IF Head(bs) THEN 1 ELSE 0) + CountTrue(Tail(bs))

\* Series.mean() of a boolean Series.
MeanBool(bs) == IF Len(bs) = 0 THEN NaN ELSE Finite(CountTrue(bs), Len(bs))

\* Series.nunique() of the Company column.
NUnique(t) == Cardinality({ t[k].Company : k \in Indices(t) })

SetMin(S) == CHOOSE x \in S : \A y \in S : x <= y
SetMax(S) == CHOOSE x \in S : \A y \in S : y <= x

\* The sparse variant: one entry per month that has a row (not what resample does).
GroupByMonthSize(t) ==
    LET ords == { MonthOrd(t[k].Date) : k \in Indices(t) }
        rank(o) == Cardinality({ p \in ords : p <= o })
    IN  [n \in 1..Cardinality(ords) |->
            LET o == CHOOSE p \in ords : rank(p) = n
            IN  [label |-> MonthEnd(o),
                 value |-> Cardinality({ k \in Indices(t) : MonthOrd(t[k].Date) = o })]]

\* frame.resample('M', on='Date').size(): one bin per calendar month from the
\* month of the earliest row to the month of the latest row, empty bins included.
ResampleSize(t) ==
    IF Len(t) = 0 THEN <<>>
    ELSE LET ords == { MonthOrd(t[k].Date) : k \in Indices(t) }
             lo == SetMin(ords)
             hi == SetMax(ords)
         IN  [n \in 1..(hi - lo + 1) |->
                [label |-> MonthEnd(lo + n - 1),
                 value |-> Cardinality({ k \in Indices(t) :
                                           MonthOrd(t[k].Date) = lo + n - 1 })]]

\* set(series.index)
IndexSet(s) == { s[k].label : k \in 1..Len(s) }

RECURSIVE SortedList(_)
\* sorted(list(S)) of a set of Timestamps
SortedList(S) ==
    IF S = {} THEN <<>>
    ELSE LET first == CHOOSE x \in S : \A y \in S : ~TsLess(y, x)
         IN  <<first>> \o SortedList(S \ {first})

\* Aligning on the first series' months only (not what the program does).
FirstIndexOnly(s1, s2) == SortedList(IndexSet(s1))

\* sorted(list(set(s1.index) | set(s2.index)))
AllMonths(s1, s2) == SortedList(IndexSet(s1) \cup IndexSet(s2))

\* series.reindex(labels, fill_value=fill)
Reindex(s, labels, fill) ==
    [n \in 1..Len(labels) |->
        [label |-> labels[n],
         value |-> IF \E k \in 1..Len(s) : s[k].label = labels[n]
                   THEN s[CHOOSE k \in 1..Len(s) : s[k].label = labels[n]].value
                   ELSE fill]]

\* The positions of a bar series that get a value label (v > 0).
Labelled(values) == { i \in 1..Len(values) : values[i] > 0 }

Values(s) == [k \in 1..Len(s) |-> s[k].value]

\* An argsort that leaves the rows where they are.
Unsorted(keys) == { [k \in 1..Len(keys) |-> k] }

\* argsort(kind='quicksort') of a Date column: a permutation that puts the keys
\* in non-decreasing order.  quicksort is not a stable sort, so the order it
\* leaves equal keys in is any order.
ArgsortOutcomes(keys) ==
    { p \in Permutations(1..Len(keys)) :
        \A a, b \in 1..Len(keys) : a < b => ~TsLess(keys[p[b]], keys[p[a]]) }

DateColumn(t) == [k \in 1..Len(t) |-> t[k].Date]

\* frame.take(order)
Take(t, order) == [k \in 1..Len(t) |-> t[order[k]]]

\* frame['Date'] = frame['Date'].dt.strftime('%m/%d/%Y')
FormatDateColumn(t) == [k \in 1..Len(t) |-> [t[k] EXCEPT !.Date = StrftimeMDY(t[k].Date)]]

\* The mask that also lets through rows without an interview.
QualityOnlyMask(t) == ColIsIn(t, "Quality", {1, 2})

\* (df['Quality'].isin([1, 2])) & (df['Interviews'] == 'Y')
HighQualityMask(t) == MaskAnd(ColIsIn(t, "Quality", {1, 2}), ColEq(t, "Interviews", "Y"))

\* The column assignment reaching the rows of the frame the selection was taken
\* from (what a selection sharing its storage with the source would do).
WriteThrough(source, shown) ==
    [k \in 1..Len(source) |->
        IF \E j \in 1..Len(shown) : shown[j].index = source[k].index
        THEN [source[k] EXCEPT !.Date = StrftimeMDY(source[k].Date)]
        ELSE source[k]]

\* The caller's frame after 'high_quality_interviews["Date"] = ...': the
\* selection was copied (.copy()), so the assignment stays in the copy.
SourceAfterAssign(source, shown) == source

\* frame[display_cols].values
DisplayValues(t) ==
    [k \in 1..Len(t) |->
        <<t[k].Date, t[k].Company, t[k].Title, t[k].Quality, t[k].LocalRemote>>]

\* len(df[df[col] == v]) for the Local/Remote column, counting both modes.
CountAnyMode(t, v) == Len(BooleanIndex(t, ColIsIn(t, "LocalRemote", {"Local", "Remote"})))

\* len(df[df['Local/Remote'] == v])
CountMode(t, v) == Len(BooleanIndex(t, ColEq(t, "LocalRemote", v)))

\* The rate of a group taken over the whole frame instead of the group.
RateOverFrame(t, q) ==
    Times100(Finite(CountTrue(ColEq(BooleanIndex(t, ColEq(t, "Quality", q)),
                                    "Interviews", "Y")), Len(t)))

\* One group of df.groupby('Quality')['Interviews'].apply(
\*     lambda x: (x == 'Y').mean() * 100)
GroupRate(t, q) ==
    Times100(MeanBool(ColEq(BooleanIndex(t, ColEq(t, "Quality", q)), "Interviews", "Y")))

\* df.groupby('Quality')[...]: one group per quality value present.
RateByQuality(t) ==
    [q \in { t[k].Quality : k \in Indices(t) } |-> GroupRate(t, q)]

\* df[df['Recruiter'] == flag]['Interviews'].apply(lambda x: x == 'Y').mean() * 100
RecruiterRate(t, flag) ==
    Times100(MeanBool(ColEq(BooleanIndex(t, ColEq(t, "Recruiter", flag)),
                            "Interviews", "Y")))

\* sns.countplot(data=df, x='Quality'): the number of rows per quality value.
CountPlot(t) ==
    [q \in { t[k].Quality : k \in Indices(t) } |->
        Cardinality({ k \in Indices(t) : t[k].Quality = q })]

----------------------------------------------------------------------------
(* State *)

VARIABLES
    csv,                       \* the rows of Resumes_Submissions_Submitted.csv
    pc,                        \* the step main() runs next
    df,                        \* the loaded frame
    metrics,                   \* generate_basic_metrics: the metrics dict
    monthly_apps,              \* plot_applications_over_time
    quality_counts,            \* plot_quality_distribution
    monthly_interviews,        \* plot_interviews_per_month: the plotted series
    interview_labels,          \*   and the bars that get a value label
    hq_chart,                  \* plot_high_quality_interviews_per_month
    high_quality_interviews,   \* plot_high_quality_interview_table: the frame
    table_data,                \*   and the cell values handed to the table
    rates                      \* analyze_interview_success

vars == <<csv, pc, df, metrics, monthly_apps, quality_counts, monthly_interviews,
          interview_labels, hq_chart, high_quality_interviews, table_data, rates>>

NoMetrics ==
    [total |-> 0, companies |-> 0, interviews |-> 0, recruiters |-> 0,
     remote |-> 0, local |-> 0, average |-> NaN]

NoChart ==
    [all_months |-> <<>>, monthly_q1 |-> <<>>, monthly_q2 |-> <<>>,
     month_labels |-> <<>>, texts |-> {}]

NoRates == [by_quality |-> <<>>, recruiter |-> NaN, no_recruiter |-> NaN]

Start(files) ==
    /\ csv \in files
    /\ pc = "load"
    /\ df = <<>>
    /\ metrics = NoMetrics
    /\ monthly_apps = <<>>
    /\ quality_counts = <<>>
    /\ monthly_interviews = <<>>
    /\ interview_labels = {}
    /\ hq_chart = NoChart
    /\ high_quality_interviews = <<>>
    /\ table_data = <<>>
    /\ rates = NoRates

Init == Start(Files(TimelineRows))

InitSubmissions == Start(Files(SubmissionRows))

----------------------------------------------------------------------------
(* The steps of main() *)

LoadData ==
    /\ pc = "load"
    /\ df' = ReadCsv(csv)
    /\ pc' = "metrics"
    /\ UNCHANGED <<csv, metrics, monthly_apps, quality_counts, monthly_interviews,
                   interview_labels, hq_chart, high_quality_interviews, table_data,
                   rates>>

\* The metrics dict of generate_basic_metrics for a frame.
BasicMetrics(t) ==
    [total |-> Len(t),
     companies |-> NUnique(t),
     interviews |-> Len(BooleanIndex(t, ColEq(t, "Interviews", "Y"))),
     recruiters |-> Len(BooleanIndex(t, ColEq(t, "Recruiter", "Y"))),
     remote |-> CountMode(t, "Remote"),
     local |-> CountMode(t, "Local"),
     average |-> MeanQuality(t)]

GenerateBasicMetrics ==
    /\ pc = "metrics"
    /\ metrics' = BasicMetrics(df)
    /\ pc' = "apps"
    /\ UNCHANGED <<csv, df, monthly_apps, quality_counts, monthly_interviews,
                   interview_labels, hq_chart, high_quality_interviews, table_data,
                   rates>>

PlotApplicationsOverTime ==
    /\ pc = "apps"
    /\ monthly_apps' = ResampleSize(df)
    /\ pc' = "quality"
    /\ UNCHANGED <<csv, df, metrics, quality_counts, monthly_interviews,
                   interview_labels, hq_chart, high_quality_interviews, table_data,
                   rates>>

PlotQualityDistribution ==
    /\ pc = "quality"
    /\ quality_counts' = CountPlot(df)
    /\ pc' = "interviews"
    /\ UNCHANGED <<csv, df, metrics, monthly_apps, monthly_interviews,
                   interview_labels, hq_chart, high_quality_interviews, table_data,
                   rates>>

\* The series plot_interviews_per_month plots for a frame.
MonthlyInterviews(t) == ResampleSize(BooleanIndex(t, ColEq(t, "Interviews", "Y")))

PlotInterviewsPerMonth ==
    /\ pc = "interviews"
    /\ monthly_interviews' = MonthlyInterviews(df)
    /\ interview_labels' = Labelled(Values(MonthlyInterviews(df)))
    /\ pc' = "hq_chart"
    /\ UNCHANGED <<csv, df, metrics, monthly_apps, quality_counts, hq_chart,
                   high_quality_interviews, table_data, rates>>

\* The stacked chart's data for a frame.
HighQualityChart(t) ==
    LET interviews_df == BooleanIndex(t, ColEq(t, "Interviews", "Y"))
        q1_interviews == BooleanIndex(interviews_df, ColEq(interviews_df, "Quality", 1))
        q2_interviews == BooleanIndex(interviews_df, ColEq(interviews_df, "Quality", 2))
        monthly_q1 == ResampleSize(q1_interviews)
        monthly_q2 == ResampleSize(q2_interviews)
        all_months == AllMonths(monthly_q1, monthly_q2)
        q1 == Values(Reindex(monthly_q1, all_months, 0))
        q2 == Values(Reindex(monthly_q2, all_months, 0))
    IN  [all_months |-> all_months,
         monthly_q1 |-> q1,
         monthly_q2 |-> q2,
         month_labels |-> [n \in 1..Len(all_months) |-> StrftimeBY(all_months[n])],
         texts |-> { i \in 1..Len(all_months) :
                       /\ q1[i] + q2[i] > 0
                       /\ \/ (q1[i] > 0 /\ q2[i] > 0)
                          \/ q1[i] > 0
                          \/ q2[i] > 0 }]

PlotHighQualityInterviewsPerMonth ==
    /\ pc = "hq_chart"
    /\ hq_chart' = HighQualityChart(df)
    /\ pc' = "hq_table"
    /\ UNCHANGED <<csv, df, metrics, monthly_apps, quality_counts, monthly_interviews,
                   interview_labels, high_quality_interviews, table_data, rates>>

\* The frames plot_high_quality_interview_table can build from a frame.
HighQualityTables(t) ==
    LET selected == BooleanIndex(t, HighQualityMask(t))
    IN  { FormatDateColumn(Take(selected, order)) :
            order \in ArgsortOutcomes(DateColumn(selected)) }

PlotHighQualityInterviewTable ==
    /\ pc = "hq_table"
    /\ \E shown \in HighQualityTables(df) :
          /\ high_quality_interviews' = shown
          /\ table_data' = DisplayValues(shown)
          /\ df' = SourceAfterAssign(df, shown)
    /\ pc' = "analyze"
    /\ UNCHANGED <<csv, metrics, monthly_apps, quality_counts, monthly_interviews,
                   interview_labels, hq_chart, rates>>

InterviewSuccess(t) ==
    [by_quality |-> RateByQuality(t),
     recruiter |-> RecruiterRate(t, "Y"),
     no_recruiter |-> RecruiterRate(t, "N")]

AnalyzeInterviewSuccess ==
    /\ pc = "analyze"
    /\ rates' = InterviewSuccess(df)
    /\ pc' = "done"
    /\ UNCHANGED <<csv, df, metrics, monthly_apps, quality_counts, monthly_interviews,
                   interview_labels, hq_chart, high_quality_interviews, table_data>>

Next ==
    \/ LoadData
    \/ GenerateBasicMetrics
    \/ PlotApplicationsOverTime
    \/ PlotQualityDistribution
    \/ PlotInterviewsPerMonth
    \/ PlotHighQualityInterviewsPerMonth
    \/ PlotHighQualityInterviewTable
    \/ AnalyzeInterviewSuccess

Spec == Init /\ [][Next]_vars

SpecSubmissions == InitSubmissions /\ [][Next]_vars

----------------------------------------------------------------------------
(* Properties *)

Steps == <<"load", "metrics", "apps", "quality", "interviews", "hq_chart",
           "hq_table", "analyze", "done">>

StepNo(p) == CHOOSE i \in 1..Len(Steps) : Steps[i] = p

\* The step whose turn is p has run.
Ran(p) == StepNo(pc) > StepNo(p)

\* The positions of the frame's interviewed rows, of all rows, and of the
\* interviewed rows of quality 1 and of quality 2.
Interviewed == { k \in Indices(df) : df[k].Interviews = "Y" }
AnyRow == Indices(df)
IsQ1 == { k \in Indices(df) : df[k].Interviews = "Y" /\ df[k].Quality = 1 }
IsQ2 == { k \in Indices(df) : df[k].Interviews = "Y" /\ df[k].Quality = 2 }

\* The months of the rows at the positions K, and the rows of K per month.
MonthsOf(t, K) == { MonthOrd(t[k].Date) : k \in K }
RowsIn(t, K, ord) == Cardinality({ k \in K : MonthOrd(t[k].Date) = ord })

\* The labels are in strictly increasing chronological order.
Chronological(labels) ==
    \A a, b \in 1..Len(labels) : a < b => TsLess(labels[a], labels[b])

Labels(s) == [k \in 1..Len(s) |-> s[k].label]

\* The series has one entry per month with a row of K, and no other entry.
SparseSeries(s, t, K) ==
    /\ { MonthOrd(s[k].label) : k \in 1..Len(s) } = MonthsOf(t, K)
    /\ Chronological(Labels(s))
    /\ \A k \in 1..Len(s) : s[k].value = RowsIn(t, K, MonthOrd(s[k].label))

\* The series has one entry per month from the first to the last month with a
\* row of K, the months in between included.
RangeSeries(s, t, K) ==
    /\ { MonthOrd(s[k].label) : k \in 1..Len(s) } =
          (IF MonthsOf(t, K) = {} THEN {}
           ELSE SetMin(MonthsOf(t, K))..SetMax(MonthsOf(t, K)))
    /\ Chronological(Labels(s))
    /\ \A k \in 1..Len(s) :
          /\ s[k].value = RowsIn(t, K, MonthOrd(s[k].label))
          /\ s[k].label = MonthEnd(MonthOrd(s[k].label))

\* C1 as stated: the monthly application and interview series have exactly one
\* entry per month in which a record matches, in chronological order, with that
\* month's number of matching records; a month without a matching record has no
\* entry, also when it lies between two months that have one.
C1_NoEmptyMonth ==
    /\ Ran("apps") => SparseSeries(monthly_apps, df, AnyRow)
    /\ Ran("interviews") => SparseSeries(monthly_interviews, df, Interviewed)

\* C1 amended: the monthly application and interview series have exactly one
\* entry per calendar month from the earliest to the latest month in which a
\* record matches, in chronological order, each with that month's number of
\* matching records, which is 0 for a month in between without one; the series
\* is empty when no record matches.
C1_MonthRange ==
    /\ Ran("apps") => RangeSeries(monthly_apps, df, AnyRow)
    /\ Ran("interviews") => RangeSeries(monthly_interviews, df, Interviewed)

\* The interview series has run over a table with a gap month and shows it as 0.
C1_Witness ==
    /\ Ran("interviews")
    /\ \E k \in 1..Len(monthly_interviews) :
          /\ monthly_interviews[k].value = 0
          /\ monthly_interviews[k].label = Timestamp(2023, 12, 31)
    /\ \E k \in 1..Len(monthly_interviews) : monthly_interviews[k].value >= 2

\* C2: the stacked chart's month axis is exactly the union of the months of the
\* monthly series of A (interviewed, quality 1) and of B (interviewed, quality
\* 2), in chronological order, and every month carries the number of A records
\* and the number of B records of that month, 0 where there is none.
C2_DenseUnion ==
    Ran("hq_chart") =>
        /\ { hq_chart.all_months[i] : i \in 1..Len(hq_chart.all_months) } =
              IndexSet(ResampleSize(SelectSeq(df, LAMBDA row :
                                   row.Interviews = "Y" /\ row.Quality = 1)))
                 \cup IndexSet(ResampleSize(SelectSeq(df, LAMBDA row :
                                   row.Interviews = "Y" /\ row.Quality = 2)))
        /\ Chronological(hq_chart.all_months)
        /\ Len(hq_chart.monthly_q1) = Len(hq_chart.all_months)
        /\ Len(hq_chart.monthly_q2) = Len(hq_chart.all_months)
        /\ \A i \in 1..Len(hq_chart.all_months) :
              /\ hq_chart.monthly_q1[i] = RowsIn(df, IsQ1, MonthOrd(hq_chart.all_months[i]))
              /\ hq_chart.monthly_q2[i] = RowsIn(df, IsQ2, MonthOrd(hq_chart.all_months[i]))

\* The chart has a month only A has records in and a month only B has records in.
C2_Witness ==
    /\ Ran("hq_chart")
    /\ \E i \in 1..Len(hq_chart.all_months) :
          hq_chart.monthly_q1[i] > 0 /\ hq_chart.monthly_q2[i] = 0
    /\ \E i \in 1..Len(hq_chart.all_months) :
          hq_chart.monthly_q1[i] = 0 /\ hq_chart.monthly_q2[i] > 0

\* C3: the table's rows are in non-decreasing order of date, every input record
\* with quality 1 or 2 and an interview is a row exactly once, and every row is
\* such an input record.
C3_FilteredSorted ==
    Ran("hq_table") =>
        LET h == high_quality_interviews
        IN  /\ \A a, b \in 1..Len(h) :
                  a < b => ~TsLess(ToDatetime(h[b].Date), ToDatetime(h[a].Date))
            /\ \A k \in Indices(df) :
                  (df[k].Quality \in {1, 2} /\ df[k].Interviews = "Y") =>
                      Cardinality({ j \in 1..Len(h) : h[j].index = df[k].index }) = 1
            /\ \A j \in 1..Len(h) :
                  /\ h[j].Quality \in {1, 2}
                  /\ h[j].Interviews = "Y"
                  /\ \E k \in Indices(df) :
                        h[j] = [df[k] EXCEPT !.Date = StrftimeMDY(df[k].Date)]

\* The table was built from a frame with a row filtered out and two selected
\* rows that stand in the frame in descending order of date.
C3_Witness ==
    /\ Ran("hq_table")
    /\ Len(high_quality_interviews) >= 2
    /\ Len(high_quality_interviews) < Len(df)
    /\ \E a, b \in Indices(df) :
          /\ a < b
          /\ df[a].Quality \in {1, 2} /\ df[a].Interviews = "Y"
          /\ df[b].Quality \in {1, 2} /\ df[b].Interviews = "Y"
          /\ TsLess(df[b].Date, df[a].Date)

\* C4 as stated: two rows of the table with the same date stand in the order
\* they have in the input table.
C4_StableSort ==
    Ran("hq_table") =>
        \A a, b \in 1..Len(high_quality_interviews) :
            (a < b /\ high_quality_interviews[a].Date = high_quality_interviews[b].Date)
                => high_quality_interviews[a].index < high_quality_interviews[b].index

IsFloat(x) == x.kind \in {"finite", "nan"}

HasRecruiter(t, flag) == \E k \in Indices(t) : t[k].Recruiter = flag

\* C5 as stated: a side of interview_rate_by_recruiter that has no record gets
\* no float at all as its rate (NoData is signalled instead), and the other
\* side's rate is the percentage of its records.
C5_NoDataPerSide ==
    Ran("analyze") =>
        /\ ~HasRecruiter(df, "Y") => ~IsFloat(rates.recruiter)
        /\ ~HasRecruiter(df, "N") => ~IsFloat(rates.no_recruiter)
        /\ HasRecruiter(df, "Y") => rates.recruiter.kind = "finite"
        /\ HasRecruiter(df, "N") => rates.no_recruiter.kind = "finite"

\* C6 as stated: on an empty table the average quality is no float (NoData is
\* signalled instead), while the total and every count are 0.
C6_EmptyTable ==
    (Ran("metrics") /\ Len(df) = 0) =>
        /\ ~IsFloat(metrics.average)
        /\ metrics.total = 0
        /\ metrics.companies = 0
        /\ metrics.interviews = 0
        /\ metrics.recruiters = 0
        /\ metrics.remote = 0
        /\ metrics.local = 0

\* The counts of C6 alone: on an empty table the total and every count are 0.
C6_CountsOnly ==
    (Ran("metrics") /\ Len(df) = 0) =>
        /\ metrics.total = 0
        /\ metrics.companies = 0
        /\ metrics.interviews = 0
        /\ metrics.recruiters = 0
        /\ metrics.remote = 0
        /\ metrics.local = 0

\* C7: for a non-empty table total_applications is the number of records, and
\* when every record is Local or Remote the two location counts add up to it.
C7_TotalAndLocation ==
    (Ran("metrics") /\ Len(csv) > 0) =>
        /\ metrics.total = Len(csv)
        /\ (\A k \in 1..Len(csv) : csv[k].LocalRemote \in {"Local", "Remote"})
              => metrics.remote + metrics.local = metrics.total

\* The metrics of a table with a Local and a Remote record and no other mode.
C7_Witness ==
    /\ Ran("metrics")
    /\ \E k \in 1..Len(csv) : csv[k].LocalRemote = "Local"
    /\ \E k \in 1..Len(csv) : csv[k].LocalRemote = "Remote"
    /\ \A k \in 1..Len(csv) : csv[k].LocalRemote \in {"Local", "Remote"}
    /\ metrics.remote >= 1 /\ metrics.local >= 1

Bucket(t, q) == { k \in Indices(t) : t[k].Quality = q }
BucketY(t, q) == { k \in Indices(t) : t[k].Quality = q /\ t[k].Interviews = "Y" }

\* C8: interview_rate_by_quality has one entry per quality value present, each
\* the interviewed records of that quality over the records of that quality
\* times 100, with a non-zero denominator, within [0, 100], 100 for a bucket of
\* interviewed records only and 0 for a bucket without one.
C8_RateByQuality ==
    Ran("analyze") =>
        /\ DOMAIN rates.by_quality = { df[k].Quality : k \in Indices(df) }
        /\ \A q \in DOMAIN rates.by_quality :
              LET r == rates.by_quality[q]
                  n == Cardinality(Bucket(df, q))
                  y == Cardinality(BucketY(df, q))
              IN  /\ r.kind = "finite"
                  /\ r.den > 0
                  /\ r.num * n = 100 * y * r.den
                  /\ 0 <= r.num /\ r.num <= 100 * r.den
                  /\ (y = n) => r.num = 100 * r.den
                  /\ (y = 0) => r.num = 0

\* The rates of a table with a bucket of interviewed records only and a mixed
\* bucket.
C8_Witness ==
    /\ Ran("analyze")
    /\ \E q \in DOMAIN rates.by_quality : BucketY(df, q) = Bucket(df, q)
    /\ \E q \in DOMAIN rates.by_quality :
          BucketY(df, q) # {} /\ BucketY(df, q) # Bucket(df, q)

\* Every result computed so far is what its operation gives on the frame now.
Reproducible ==
    /\ Ran("metrics") => metrics = BasicMetrics(df)
    /\ Ran("apps") => monthly_apps = ResampleSize(df)
    /\ Ran("quality") => quality_counts = CountPlot(df)
    /\ Ran("interviews") => monthly_interviews = MonthlyInterviews(df)
    /\ Ran("hq_chart") => hq_chart = HighQualityChart(df)
    /\ Ran("hq_table") => high_quality_interviews \in HighQualityTables(df)
    /\ Ran("analyze") => rates = InterviewSuccess(df)

RECURSIVE SumSeq(_)
SumSeq(s) == IF s = <<>> THEN 0 ELSE Head(s) + SumSeq(Tail(s))

\* C10: in every month of the stacked chart the Quality 1 count plus the
\* Quality 2 count is the number of table rows dated in that month, the totals
\* add up to the number of table rows, and a month has a value label exactly
\* when its total is greater than 0.
C10_ChartMatchesTable ==
    Ran("hq_table") =>
        LET h == high_quality_interviews
            n == Len(hq_chart.all_months)
            total == [i \in 1..n |-> hq_chart.monthly_q1[i] + hq_chart.monthly_q2[i]]
        IN  /\ \A i \in 1..n :
                  total[i] = Cardinality({ j \in 1..Len(table_data) :
                      MonthOrd(ToDatetime(table_data[j][1])) = MonthOrd(hq_chart.all_months[i]) })
            /\ SumSeq(total) = Len(table_data)
            /\ Len(table_data) = Len(h)
            /\ hq_chart.texts = { i \in 1..n : total[i] > 0 }

\* Chart and table of a frame with a mixed month, an empty month in between and
\* a month of one quality.
C10_Witness ==
    /\ Ran("hq_table")
    /\ Len(table_data) = 3
    /\ \E i \in 1..Len(hq_chart.all_months) :
          hq_chart.monthly_q1[i] > 0 /\ hq_chart.monthly_q2[i] > 0
    /\ \E i \in 1..Len(hq_chart.all_months) :
          hq_chart.monthly_q1[i] + hq_chart.monthly_q2[i] = 0
    /\ hq_chart.texts # {}

====
